---- MODULE Spec2Model ----
(***************************************************************************)
(* Model of the GitLab plugin's hydrate functions: connection resolution   *)
(* (gitlab/utils.go), the project table handlers and the issue table       *)
(* handlers with their predicate translation.                              *)
(*                                                                         *)
(* Conventions.  A Go pointer is a set with at most one element: {} is     *)
(* nil and {v} points at v.  A map[string]*QualValue is a function whose   *)
(* DOMAIN is the set of keys with a non-nil value.  An error is a pointer  *)
(* to its message.                                                         *)
(***************************************************************************)
EXTENDS Integers, Sequences, FiniteSets, TLC

\* ------------------------------------------------------------------ bounds
\* Largest page number the upstream serves.
MaxPages == 3
\* Upstream calls one invocation may issue before the model stops following it.
MaxCalls == 4

\* --------------------------------------------------------------- constants
GitlabCloudApiUrl == "https://gitlab.com/api/v4"
SelfHostedUrl == "https://gitlab.example.org/api/v4"
\* A base address url.Parse rejects, so that api.NewClient returns an error.
MalformedUrl == "://gitlab"

ErrBaseAddr ==
  "GitLab Base Address must be set either in GITLAB_ADDR env var or in connection config file"
ErrToken ==
  "GitLab Private/Personal Access Token must be set either in GITLAB_TOKEN env var or in connection config file"
ErrNewClient == "parse base url: missing protocol scheme"
ErrCloudQual ==
  "When using this table with gitlab cloud, 'List' call requires an '=' qual for one ore more of the following columns:  assignee, assignee_id, author_id, project_id"
ErrNotFound == "404 Project Not Found"
UpstreamErrors == {"500 Internal Server Error", "401 Unauthorized"}

\* The invocations of hydrate functions the host may run side by side.
Invs == {1, 2}

\* Dereference of a non-nil pointer.
Deref(p) == CHOOSE x \in p : TRUE

\* ------------------------------------------------------------------- state
VARIABLES
  env,        \* process environment: GITLAB_ADDR, GITLAB_TOKEN ("" when unset)
  upstream,   \* the remote API: next-page indicators, failing call, projects
  hydrate,    \* per invocation: the hydrate function the host calls
  cfg,        \* per invocation: GetConfig(d.Connection), pointers BaseUrl, Token
  keyQuals,   \* per invocation: d.KeyColumnQuals
  optQuals,   \* per invocation: d.OptionalKeyColumnQuals
  fn,         \* per invocation: the function now executing
  pc,         \* per invocation: position in fn
  cloud,      \* per invocation: what isGitlabCloud(d) returned to listIssues
  merged,     \* per invocation: connect's locals baseUrl and token once it has
              \* merged them ({} while connect has not run)
  conn,       \* per invocation: pointer to the client connect returned
  built,      \* per invocation: number of api.NewClient calls
  opt,        \* per invocation: the handler's local opt
  project_id, \* per invocation: listProjectIssues' local project_id
  reqs,       \* per invocation: the upstream requests issued, in order
  resp,       \* per invocation: last response (items not yet ranged over, NextPage)
  rows,       \* per invocation: what d.StreamListItem has handed to the sink
  ret         \* per invocation: the (interface{}, error) returned

inputs == <<env, upstream, hydrate, cfg, keyQuals, optQuals>>
vars == <<env, upstream, hydrate, cfg, keyQuals, optQuals, fn, pc, cloud, merged,
          conn, built, opt, project_id, reqs, resp, rows, ret>>

\* connect with the token check placed before the base address check.
connect_TokenFirst(e, c) ==
  LET baseUrl == IF c.BaseUrl # {} THEN Deref(c.BaseUrl) ELSE e.GITLAB_ADDR
      token   == IF c.Token # {} THEN Deref(c.Token) ELSE e.GITLAB_TOKEN
      m       == [baseUrl |-> baseUrl, token |-> token]
  IN  IF token = ""
        THEN [merged |-> m, newClient |-> FALSE, client |-> {}, err |-> {ErrToken}]
      ELSE IF baseUrl = ""
        THEN [merged |-> m, newClient |-> FALSE, client |-> {}, err |-> {ErrBaseAddr}]
      ELSE IF baseUrl = MalformedUrl
        THEN [merged |-> m, newClient |-> TRUE, client |-> {}, err |-> {ErrNewClient}]
      ELSE [merged |-> m, newClient |-> TRUE,
            client |-> {[baseURL |-> baseUrl, token |-> token]}, err |-> {}]

\* connect taking a config field only when it is set and not empty.
connect_SkipEmpty(e, c) ==
  LET baseUrl == IF c.BaseUrl # {} /\ c.BaseUrl # {""}
                   THEN Deref(c.BaseUrl) ELSE e.GITLAB_ADDR
      token   == IF c.Token # {} /\ c.Token # {""}
                   THEN Deref(c.Token) ELSE e.GITLAB_TOKEN
      m       == [baseUrl |-> baseUrl, token |-> token]
  IN  IF baseUrl = ""
        THEN [merged |-> m, newClient |-> FALSE, client |-> {}, err |-> {ErrBaseAddr}]
      ELSE IF token = ""
        THEN [merged |-> m, newClient |-> FALSE, client |-> {}, err |-> {ErrToken}]
      ELSE IF baseUrl = MalformedUrl
        THEN [merged |-> m, newClient |-> TRUE, client |-> {}, err |-> {ErrNewClient}]
      ELSE [merged |-> m, newClient |-> TRUE,
            client |-> {[baseURL |-> baseUrl, token |-> token]}, err |-> {}]

\* ------------------------------------------------------- connection (utils)
\* connect, as a function of the environment and the connection config:
\* the merged locals, whether api.NewClient was called, the client and the error.
connect(e, c) ==
  LET baseUrl == IF c.BaseUrl # {} THEN Deref(c.BaseUrl) ELSE e.GITLAB_ADDR
      token   == IF c.Token # {} THEN Deref(c.Token) ELSE e.GITLAB_TOKEN
      m       == [baseUrl |-> baseUrl, token |-> token]
  IN  IF baseUrl = ""
        THEN [merged |-> m, newClient |-> FALSE, client |-> {}, err |-> {ErrBaseAddr}]
      ELSE IF token = ""
        THEN [merged |-> m, newClient |-> FALSE, client |-> {}, err |-> {ErrToken}]
      ELSE IF baseUrl = MalformedUrl
        THEN [merged |-> m, newClient |-> TRUE, client |-> {}, err |-> {ErrNewClient}]
      ELSE [merged |-> m, newClient |-> TRUE,
            client |-> {[baseURL |-> baseUrl, token |-> token]}, err |-> {}]

isGitlabCloud(c) ==
  IF c.BaseUrl # {}
    THEN (IF Deref(c.BaseUrl) = GitlabCloudApiUrl THEN TRUE ELSE FALSE)
    ELSE FALSE

\* ---------------------------------------------------- predicate translation
\* api.ListOptions{Page, PerPage} with the scope and the five optional filters.
Options(page, perPage, scope) ==
  [Page |-> page, PerPage |-> perPage, Scope |-> scope,
   AssigneeUsername |-> {}, AssigneeID |-> {}, AuthorID |-> {},
   Confidential |-> {}, Search |-> {}]

addOptionalIssueQuals(opts, q) ==
  LET o1 == IF "assignee" \in DOMAIN q
              THEN [opts EXCEPT !.AssigneeUsername = {q["assignee"]}] ELSE opts
      o2 == IF "assignee_id" \in DOMAIN q
              THEN [o1 EXCEPT !.AssigneeID = {q["assignee_id"]}] ELSE o1
      o3 == IF "author_id" \in DOMAIN q
              THEN [o2 EXCEPT !.AuthorID = {q["author_id"]}] ELSE o2
      o4 == IF "confidential" \in DOMAIN q
              THEN [o3 EXCEPT !.Confidential = {q["confidential"]}] ELSE o3
      o5 == IF "search_string" \in DOMAIN q
              THEN [o4 EXCEPT !.Search = {q["search_string"]}] ELSE o4
  IN  o5

addOptionalProjectIssueQuals(opts, q) ==
  LET o1 == IF "assignee" \in DOMAIN q
              THEN [opts EXCEPT !.AssigneeUsername = {q["assignee"]}] ELSE opts
      o2 == IF "assignee_id" \in DOMAIN q
              THEN [o1 EXCEPT !.AssigneeID = {q["assignee_id"]}] ELSE o1
      o3 == IF "author_id" \in DOMAIN q
              THEN [o2 EXCEPT !.AuthorID = {q["author_id"]}] ELSE o2
      o4 == IF "confidential" \in DOMAIN q
              THEN [o3 EXCEPT !.Confidential = {q["confidential"]}] ELSE o3
      o5 == IF "search_string" \in DOMAIN q
              THEN [o4 EXCEPT !.Search = {q["search_string"]}] ELSE o4
  IN  o5

\* ---------------------------------------------------------------- upstream
\* The page a list request addresses: the client library omits a zero page
\* from the query string and the API then serves the first page.
ServedPage(page) == IF page = 0 THEN 1 ELSE page

\* Number of items on a page (pages of 2, 0, 1, 2, ... items).
PageLen(p) == (p + 1) % 3

\* The items of page p of a list endpoint.
PageItems(endpoint, p) == [k \in 1..PageLen(p) |-> <<endpoint, p, k>>]

\* The request a list call sends.
ListRequest(endpoint, pid, o) ==
  [endpoint |-> endpoint, pid |-> pid, Page |-> o.Page, PerPage |-> o.PerPage,
   Scope |-> o.Scope, AssigneeUsername |-> o.AssigneeUsername,
   AssigneeID |-> o.AssigneeID, AuthorID |-> o.AuthorID,
   Confidential |-> o.Confidential, Search |-> o.Search]

\* The answer to the n-th call of an invocation, a list request for `page`.
ListResponse(endpoint, page, n) ==
  IF upstream.failAt = n
    THEN [items |-> <<>>, NextPage |-> 0, err |-> {upstream.failErr}]
    ELSE LET p == ServedPage(page)
         IN  IF p \in DOMAIN upstream.next
               THEN [items |-> PageItems(endpoint, p),
                     NextPage |-> upstream.next[p], err |-> {}]
               ELSE [items |-> <<>>, NextPage |-> 0, err |-> {}]

\* The answer to the n-th call of an invocation, a get-by-id for project `id`.
GetResponse(id, n) ==
  IF upstream.failAt = n
    THEN [project |-> {}, err |-> {upstream.failErr}]
  ELSE IF id \in upstream.projects
    THEN [project |-> {[ID |-> id]}, err |-> {}]
  ELSE [project |-> {}, err |-> {ErrNotFound}]

NoResp == [items |-> <<>>, NextPage |-> 0]
NoRet == [val |-> {}, err |-> {}]

\* ------------------------------------------------------------------ inputs
\* os.Getenv gives "" for an unset variable.
EnvAddrs == {"", GitlabCloudApiUrl, SelfHostedUrl, MalformedUrl}
EnvTokens == {"", "envtoken"}
Envs == [GITLAB_ADDR : EnvAddrs, GITLAB_TOKEN : EnvTokens]

CfgBaseUrls == {{}, {""}, {GitlabCloudApiUrl}, {SelfHostedUrl}, {MalformedUrl}}
CfgTokens == {{}, {""}, {"cfgtoken"}}
Cfgs == [BaseUrl : CfgBaseUrls, Token : CfgTokens]
NoCfg == [BaseUrl |-> {}, Token |-> {}]

\* The columns tableIssue accepts as optional key columns.
IssueKeyColumns ==
  {"assignee", "assignee_id", "author", "author_id", "confidential",
   "search_string", "project_id"}

\* An '=' qual on each column of S; b is the value of the confidential qual.
QualMap(S, b) ==
  [c \in S |->
     CASE c = "assignee"      -> "alice"
       [] c = "assignee_id"   -> 11
       [] c = "author"        -> "bob"
       [] c = "author_id"     -> 22
       [] c = "confidential"  -> b
       [] c = "search_string" -> "crash"
       [] c = "project_id"    -> 7]

IssueQuals ==
  {QualMap(S, b) : S \in SUBSET IssueKeyColumns, b \in BOOLEAN}

NoQuals == QualMap({}, FALSE)

\* The key column qual of tableProject's Get call.
IdQual(id) == [c \in {"id"} |-> id]

\* Ids the host may ask getProject for; the upstream knows the first two.
ProjectIds == {1, 2, 3}
KnownProjects == {1, 2}

\* What the host may call: the hydrate function with its qual maps.
HostCalls ==
  {[hydrate |-> "listProjects", keyQuals |-> NoQuals, optQuals |-> NoQuals]}
  \cup {[hydrate |-> "getProject", keyQuals |-> IdQual(id),
         optQuals |-> NoQuals] : id \in ProjectIds}
  \cup {[hydrate |-> "listIssues", keyQuals |-> NoQuals, optQuals |-> q] :
          q \in IssueQuals}

\* Next-page indicators of an upstream of n pages: p -> p+1, and the last
\* page -> back, where back = 0 ends the listing, 0 < back <= n leads back
\* to a page already served and back > n to a page past the end, which the
\* upstream serves empty with indicator 0.
NextPages(n, back) == [p \in 1..n |-> IF p < n THEN p + 1 ELSE back]

Upstreams ==
  {[next |-> NextPages(n, back), failAt |-> f[1], failErr |-> f[2],
    projects |-> KnownProjects] :
     n \in 1..MaxPages, back \in 0..MaxPages,
     f \in {<<0, "">>} \cup ((1..MaxCalls) \X UpstreamErrors)}

\* A two-page upstream that never fails.
PlainUpstream ==
  [next |-> NextPages(2, 0), failAt |-> 0, failErr |-> "",
   projects |-> KnownProjects]

\* A connection with both fields set in the config file.
PlainCfg == [BaseUrl |-> {SelfHostedUrl}, Token |-> {"cfgtoken"}]
PlainEnv == [GITLAB_ADDR |-> "", GITLAB_TOKEN |-> ""]

\* One invocation (number 1) of call c on connection k, not yet started.
Start(e, u, k, c) ==
  /\ env = e
  /\ upstream = u
  /\ hydrate = [i \in Invs |-> IF i = 1 THEN c.hydrate ELSE "none"]
  /\ cfg = [i \in Invs |-> IF i = 1 THEN k ELSE NoCfg]
  /\ keyQuals = [i \in Invs |-> IF i = 1 THEN c.keyQuals ELSE NoQuals]
  /\ optQuals = [i \in Invs |-> IF i = 1 THEN c.optQuals ELSE NoQuals]
  /\ fn = [i \in Invs |-> IF i = 1 THEN c.hydrate ELSE "none"]
  /\ pc = [i \in Invs |-> IF i = 1 THEN "entry" ELSE "off"]
  /\ cloud = [i \in Invs |-> "unevaluated"]
  /\ merged = [i \in Invs |-> {}]
  /\ conn = [i \in Invs |-> {}]
  /\ built = [i \in Invs |-> 0]
  /\ opt = [i \in Invs |-> Options(0, 0, {})]
  /\ project_id = [i \in Invs |-> 0]
  /\ reqs = [i \in Invs |-> <<>>]
  /\ resp = [i \in Invs |-> NoResp]
  /\ rows = [i \in Invs |-> <<>>]
  /\ ret = [i \in Invs |-> NoRet]

\* Every environment and connection config against a plain upstream, and
\* every upstream through a plain connection config.
Init ==
  \/ \E e \in Envs, k \in Cfgs, c \in HostCalls : Start(e, PlainUpstream, k, c)
  \/ \E u \in Upstreams, c \in HostCalls : Start(PlainEnv, u, PlainCfg, c)

\* ----------------------------------------------------------------- actions
\* return (val, err) from the hydrate function.
Return(i, val, err) ==
  /\ ret' = [ret EXCEPT ![i] = [val |-> val, err |-> err]]
  /\ pc' = [pc EXCEPT ![i] = "done"]

\* The assignments of one connect(ctx, d) call with result r.
Connected(i, r) ==
  /\ merged' = [merged EXCEPT ![i] = {r.merged}]
  /\ conn' = [conn EXCEPT ![i] = r.client]
  /\ built' = [built EXCEPT ![i] = IF r.newClient THEN @ + 1 ELSE @]

\* listIssues without the project_id branch: always the instance-wide listing.
listIssues_NoRoute(i) ==
  /\ fn[i] = "listIssues" /\ pc[i] = "entry"
  /\ LET q == optQuals[i]
         noneSet == /\ "assignee" \notin DOMAIN q
                    /\ "assignee_id" \notin DOMAIN q
                    /\ "author_id" \notin DOMAIN q
                    /\ "project_id" \notin DOMAIN q
     IN  /\ cloud' = [cloud EXCEPT ![i] =
                        IF ~noneSet THEN "unevaluated"
                        ELSE IF isGitlabCloud(cfg[i]) THEN "true" ELSE "false"]
         /\ IF noneSet /\ isGitlabCloud(cfg[i])
              THEN /\ Return(i, {}, {ErrCloudQual})
                   /\ UNCHANGED fn
              ELSE /\ fn' = [fn EXCEPT ![i] = "listAllIssues"]
                   /\ UNCHANGED <<pc, ret>>
  /\ UNCHANGED <<inputs, merged, conn, built, opt, project_id, reqs, resp, rows>>

\* listIssues: the gitlab cloud guard, then the choice of the listing function.
listIssues(i) ==
  /\ fn[i] = "listIssues" /\ pc[i] = "entry"
  /\ LET q == optQuals[i]
         noneSet == /\ "assignee" \notin DOMAIN q
                    /\ "assignee_id" \notin DOMAIN q
                    /\ "author_id" \notin DOMAIN q
                    /\ "project_id" \notin DOMAIN q
     IN  /\ cloud' = [cloud EXCEPT ![i] =
                        IF ~noneSet THEN "unevaluated"
                        ELSE IF isGitlabCloud(cfg[i]) THEN "true" ELSE "false"]
         /\ IF noneSet /\ isGitlabCloud(cfg[i])
              THEN /\ Return(i, {}, {ErrCloudQual})
                   /\ UNCHANGED fn
              ELSE /\ fn' = [fn EXCEPT ![i] =
                              IF "project_id" \in DOMAIN q
                                THEN "listProjectIssues" ELSE "listAllIssues"]
                   /\ UNCHANGED <<pc, ret>>
  /\ UNCHANGED <<inputs, merged, conn, built, opt, project_id, reqs, resp, rows>>

\* listProjects up to its page loop: connect and the initial options.
listProjects_Begin(i) ==
  /\ fn[i] = "listProjects" /\ pc[i] = "entry"
  /\ LET r == connect(env, cfg[i])
     IN  /\ Connected(i, r)
         /\ IF r.err # {}
              THEN /\ Return(i, {}, r.err)
                   /\ UNCHANGED opt
              ELSE /\ opt' = [opt EXCEPT ![i] = Options(1, 50, {})]
                   /\ pc' = [pc EXCEPT ![i] = "call"]
                   /\ UNCHANGED ret
  /\ UNCHANGED <<inputs, fn, cloud, project_id, reqs, resp, rows>>

\* conn.Projects.ListProjects(opt) and its error check.
listProjects_Call(i) ==
  /\ fn[i] = "listProjects" /\ pc[i] = "call"
  /\ Len(reqs[i]) < MaxCalls
  /\ LET r == ListResponse("ListProjects", opt[i].Page, Len(reqs[i]) + 1)
     IN  /\ reqs' = [reqs EXCEPT ![i] =
                       Append(@, ListRequest("ListProjects", 0, opt[i]))]
         /\ IF r.err # {}
              THEN /\ Return(i, {}, r.err)
                   /\ UNCHANGED resp
              ELSE /\ resp' = [resp EXCEPT ![i] =
                                 [items |-> r.items, NextPage |-> r.NextPage]]
                   /\ pc' = [pc EXCEPT ![i] = "stream"]
                   /\ UNCHANGED ret
  /\ UNCHANGED <<inputs, fn, cloud, merged, conn, built, opt, project_id, rows>>

\* One d.StreamListItem(ctx, project) of the range loop.
listProjects_Stream(i) ==
  /\ fn[i] = "listProjects" /\ pc[i] = "stream"
  /\ resp[i].items # <<>>
  /\ rows' = [rows EXCEPT ![i] = Append(@, Head(resp[i].items))]
  /\ resp' = [resp EXCEPT ![i].items = Tail(@)]
  /\ UNCHANGED <<inputs, fn, pc, cloud, merged, conn, built, opt, project_id,
                 reqs, ret>>

\* The end of a loop round: break on NextPage 0, else advance opt.Page.
listProjects_Next(i) ==
  /\ fn[i] = "listProjects" /\ pc[i] = "stream"
  /\ resp[i].items = <<>>
  /\ IF resp[i].NextPage = 0
       THEN /\ Return(i, {}, {})
            /\ UNCHANGED opt
       ELSE /\ opt' = [opt EXCEPT ![i].Page = resp[i].NextPage]
            /\ pc' = [pc EXCEPT ![i] = "call"]
            /\ UNCHANGED ret
  /\ UNCHANGED <<inputs, fn, cloud, merged, conn, built, project_id, reqs, resp,
                 rows>>

\* getProject up to its get-by-id call: connect, the id qual, the options.
getProject_Begin(i) ==
  /\ fn[i] = "getProject" /\ pc[i] = "entry"
  /\ LET r == connect(env, cfg[i])
     IN  /\ Connected(i, r)
         /\ IF r.err # {}
              THEN /\ Return(i, {}, r.err)
                   /\ UNCHANGED opt
              ELSE /\ opt' = [opt EXCEPT ![i] = Options(0, 0, {})]
                   /\ pc' = [pc EXCEPT ![i] = "call"]
                   /\ UNCHANGED ret
  /\ UNCHANGED <<inputs, fn, cloud, project_id, reqs, resp, rows>>

\* The get-by-id call returning (project, nil) whatever the upstream answers.
getProject_Call_DropsError(i) ==
  /\ fn[i] = "getProject" /\ pc[i] = "call"
  /\ LET q  == keyQuals[i]
         id == IF "id" \in DOMAIN q THEN q["id"] ELSE 0
         g  == GetResponse(id, Len(reqs[i]) + 1)
     IN  /\ reqs' = [reqs EXCEPT ![i] =
                       Append(@, ListRequest("GetProject", id, opt[i]))]
         /\ Return(i, g.project, {})
  /\ UNCHANGED <<inputs, fn, cloud, merged, conn, built, opt, project_id, resp,
                 rows>>

\* conn.Projects.GetProject(id, opt), its error check and the return.
getProject_Call(i) ==
  /\ fn[i] = "getProject" /\ pc[i] = "call"
  /\ LET q  == keyQuals[i]
         id == IF "id" \in DOMAIN q THEN q["id"] ELSE 0
         g  == GetResponse(id, Len(reqs[i]) + 1)
     IN  /\ reqs' = [reqs EXCEPT ![i] =
                       Append(@, ListRequest("GetProject", id, opt[i]))]
         /\ IF g.err # {}
              THEN Return(i, {}, g.err)
              ELSE Return(i, g.project, {})
  /\ UNCHANGED <<inputs, fn, cloud, merged, conn, built, opt, project_id, resp,
                 rows>>

\* listAllIssues up to its page loop: connect, the options, the quals.
listAllIssues_Begin(i) ==
  /\ fn[i] = "listAllIssues" /\ pc[i] = "entry"
  /\ LET r == connect(env, cfg[i])
     IN  /\ Connected(i, r)
         /\ IF r.err # {}
              THEN /\ Return(i, {}, r.err)
                   /\ UNCHANGED opt
              ELSE /\ opt' = [opt EXCEPT ![i] =
                        addOptionalIssueQuals(Options(1, 50, {"all"}), optQuals[i])]
                   /\ pc' = [pc EXCEPT ![i] = "call"]
                   /\ UNCHANGED ret
  /\ UNCHANGED <<inputs, fn, cloud, project_id, reqs, resp, rows>>

\* The ListIssues call with a loop that tries again on an error.
listAllIssues_Call_Retry(i) ==
  /\ fn[i] = "listAllIssues" /\ pc[i] = "call"
  /\ Len(reqs[i]) < MaxCalls
  /\ LET r == ListResponse("ListIssues", opt[i].Page, Len(reqs[i]) + 1)
     IN  /\ reqs' = [reqs EXCEPT ![i] =
                       Append(@, ListRequest("ListIssues", 0, opt[i]))]
         /\ IF r.err # {}
              THEN UNCHANGED <<resp, pc, ret>>
              ELSE /\ resp' = [resp EXCEPT ![i] =
                                 [items |-> r.items, NextPage |-> r.NextPage]]
                   /\ pc' = [pc EXCEPT ![i] = "stream"]
                   /\ UNCHANGED ret
  /\ UNCHANGED <<inputs, fn, cloud, merged, conn, built, opt, project_id, rows>>

\* conn.Issues.ListIssues(opt) and its error check.
listAllIssues_Call(i) ==
  /\ fn[i] = "listAllIssues" /\ pc[i] = "call"
  /\ Len(reqs[i]) < MaxCalls
  /\ LET r == ListResponse("ListIssues", opt[i].Page, Len(reqs[i]) + 1)
     IN  /\ reqs' = [reqs EXCEPT ![i] =
                       Append(@, ListRequest("ListIssues", 0, opt[i]))]
         /\ IF r.err # {}
              THEN /\ Return(i, {}, r.err)
                   /\ UNCHANGED resp
              ELSE /\ resp' = [resp EXCEPT ![i] =
                                 [items |-> r.items, NextPage |-> r.NextPage]]
                   /\ pc' = [pc EXCEPT ![i] = "stream"]
                   /\ UNCHANGED ret
  /\ UNCHANGED <<inputs, fn, cloud, merged, conn, built, opt, project_id, rows>>

\* One d.StreamListItem(ctx, issue) of the range loop.
listAllIssues_Stream(i) ==
  /\ fn[i] = "listAllIssues" /\ pc[i] = "stream"
  /\ resp[i].items # <<>>
  /\ rows' = [rows EXCEPT ![i] = Append(@, Head(resp[i].items))]
  /\ resp' = [resp EXCEPT ![i].items = Tail(@)]
  /\ UNCHANGED <<inputs, fn, pc, cloud, merged, conn, built, opt, project_id,
                 reqs, ret>>

\* The end of a loop round with the page cursor kept in one options value
\* shared by all invocations (a package-level opt).
listAllIssues_Next_SharedCursor(i) ==
  /\ fn[i] = "listAllIssues" /\ pc[i] = "stream"
  /\ resp[i].items = <<>>
  /\ IF resp[i].NextPage = 0
       THEN /\ Return(i, {}, {})
            /\ UNCHANGED opt
       ELSE /\ opt' = [j \in Invs |-> [opt[j] EXCEPT !.Page = resp[i].NextPage]]
            /\ pc' = [pc EXCEPT ![i] = "call"]
            /\ UNCHANGED ret
  /\ UNCHANGED <<inputs, fn, cloud, merged, conn, built, project_id, reqs, resp,
                 rows>>

\* The end of a loop round: break on NextPage 0, else advance opt.Page.
listAllIssues_Next(i) ==
  /\ fn[i] = "listAllIssues" /\ pc[i] = "stream"
  /\ resp[i].items = <<>>
  /\ IF resp[i].NextPage = 0
       THEN /\ Return(i, {}, {})
            /\ UNCHANGED opt
       ELSE /\ opt' = [opt EXCEPT ![i].Page = resp[i].NextPage]
            /\ pc' = [pc EXCEPT ![i] = "call"]
            /\ UNCHANGED ret
  /\ UNCHANGED <<inputs, fn, cloud, merged, conn, built, project_id, reqs, resp,
                 rows>>

\* listProjectIssues up to its page loop: connect, the options, the quals,
\* the project_id qual.
listProjectIssues_Begin(i) ==
  /\ fn[i] = "listProjectIssues" /\ pc[i] = "entry"
  /\ LET r == connect(env, cfg[i])
         q == optQuals[i]
     IN  /\ Connected(i, r)
         /\ IF r.err # {}
              THEN /\ Return(i, {}, r.err)
                   /\ UNCHANGED <<opt, project_id>>
              ELSE /\ opt' = [opt EXCEPT ![i] =
                        addOptionalProjectIssueQuals(Options(1, 50, {"all"}), q)]
                   /\ IF "project_id" \notin DOMAIN q
                        THEN /\ Return(i, {}, {})
                             /\ UNCHANGED project_id
                        ELSE /\ project_id' =
                                  [project_id EXCEPT ![i] = q["project_id"]]
                             /\ pc' = [pc EXCEPT ![i] = "call"]
                             /\ UNCHANGED ret
  /\ UNCHANGED <<inputs, fn, cloud, reqs, resp, rows>>

\* The options listProjectIssues hands to the upstream call: a fresh
\* &api.ListProjectIssuesOptions{}, not the opt it built.
listProjectIssues_CallOptions(o) == Options(0, 0, {})

\* conn.Issues.ListProjectIssues(project_id, ...) and its error check.
listProjectIssues_Call(i) ==
  /\ fn[i] = "listProjectIssues" /\ pc[i] = "call"
  /\ Len(reqs[i]) < MaxCalls
  /\ LET sent == listProjectIssues_CallOptions(opt[i])
         r == ListResponse("ListProjectIssues", sent.Page, Len(reqs[i]) + 1)
     IN  /\ reqs' = [reqs EXCEPT ![i] =
                       Append(@, ListRequest("ListProjectIssues", project_id[i],
                                             sent))]
         /\ IF r.err # {}
              THEN /\ Return(i, {}, r.err)
                   /\ UNCHANGED resp
              ELSE /\ resp' = [resp EXCEPT ![i] =
                                 [items |-> r.items, NextPage |-> r.NextPage]]
                   /\ pc' = [pc EXCEPT ![i] = "stream"]
                   /\ UNCHANGED ret
  /\ UNCHANGED <<inputs, fn, cloud, merged, conn, built, opt, project_id, rows>>

\* One d.StreamListItem(ctx, issue) of the range loop.
listProjectIssues_Stream(i) ==
  /\ fn[i] = "listProjectIssues" /\ pc[i] = "stream"
  /\ resp[i].items # <<>>
  /\ rows' = [rows EXCEPT ![i] = Append(@, Head(resp[i].items))]
  /\ resp' = [resp EXCEPT ![i].items = Tail(@)]
  /\ UNCHANGED <<inputs, fn, pc, cloud, merged, conn, built, opt, project_id,
                 reqs, ret>>

\* The end of a loop round: break on NextPage 0, else advance opt.Page.
listProjectIssues_Next(i) ==
  /\ fn[i] = "listProjectIssues" /\ pc[i] = "stream"
  /\ resp[i].items = <<>>
  /\ IF resp[i].NextPage = 0
       THEN /\ Return(i, {}, {})
            /\ UNCHANGED opt
       ELSE /\ opt' = [opt EXCEPT ![i].Page = resp[i].NextPage]
            /\ pc' = [pc EXCEPT ![i] = "call"]
            /\ UNCHANGED ret
  /\ UNCHANGED <<inputs, fn, cloud, merged, conn, built, project_id, reqs, resp,
                 rows>>

Next ==
  \E i \in Invs :
    \/ listIssues(i)
    \/ listProjects_Begin(i)
    \/ listProjects_Call(i)
    \/ listProjects_Stream(i)
    \/ listProjects_Next(i)
    \/ getProject_Begin(i)
    \/ getProject_Call(i)
    \/ listAllIssues_Begin(i)
    \/ listAllIssues_Call(i)
    \/ listAllIssues_Stream(i)
    \/ listAllIssues_Next(i)
    \/ listProjectIssues_Begin(i)
    \/ listProjectIssues_Call(i)
    \/ listProjectIssues_Stream(i)
    \/ listProjectIssues_Next(i)

Spec == Init /\ [][Next]_vars

\* ------------------------------------------------- concurrent invocations
\* The host calls of the concurrent runs: both tables, both issue listing
\* paths, with and without translated quals.
ConcCalls ==
  {c \in HostCalls :
     \/ c.hydrate = "listProjects"
     \/ c.hydrate = "getProject" /\ c.keyQuals["id"] = 1
     \/ c.hydrate = "listIssues" /\
          DOMAIN c.optQuals \in {{}, {"assignee", "search_string"},
                                 {"project_id"}, {"project_id", "assignee"}}}

\* The connections of the concurrent runs: everything from the
\* environment, or both fields from the config file.
ConcEnv == [GITLAB_ADDR |-> SelfHostedUrl, GITLAB_TOKEN |-> "envtoken"]
ConcCfgs == {NoCfg, [BaseUrl |-> {GitlabCloudApiUrl}, Token |-> {"cfgtoken"}]}

\* Two invocations, each with its own QueryData, neither started.
StartBoth(e, u, k1, c1, k2, c2) ==
  /\ env = e
  /\ upstream = u
  /\ hydrate = [i \in Invs |-> IF i = 1 THEN c1.hydrate ELSE c2.hydrate]
  /\ cfg = [i \in Invs |-> IF i = 1 THEN k1 ELSE k2]
  /\ keyQuals = [i \in Invs |-> IF i = 1 THEN c1.keyQuals ELSE c2.keyQuals]
  /\ optQuals = [i \in Invs |-> IF i = 1 THEN c1.optQuals ELSE c2.optQuals]
  /\ fn = [i \in Invs |-> IF i = 1 THEN c1.hydrate ELSE c2.hydrate]
  /\ pc = [i \in Invs |-> "entry"]
  /\ cloud = [i \in Invs |-> "unevaluated"]
  /\ merged = [i \in Invs |-> {}]
  /\ conn = [i \in Invs |-> {}]
  /\ built = [i \in Invs |-> 0]
  /\ opt = [i \in Invs |-> Options(0, 0, {})]
  /\ project_id = [i \in Invs |-> 0]
  /\ reqs = [i \in Invs |-> <<>>]
  /\ resp = [i \in Invs |-> NoResp]
  /\ rows = [i \in Invs |-> <<>>]
  /\ ret = [i \in Invs |-> NoRet]

\* The upstreams of the concurrent runs: every shape, answering every call
\* or failing each invocation's second call.
ConcUpstreams ==
  {u \in Upstreams :
     u.failAt = 0 \/ (u.failAt = 2 /\ u.failErr = "500 Internal Server Error")}

InitConc ==
  \E u \in ConcUpstreams, k1, k2 \in ConcCfgs, c1, c2 \in ConcCalls :
    StartBoth(ConcEnv, u, k1, c1, k2, c2)

\* Two invocations whose steps the host interleaves in any order.
SpecConc == InitConc /\ [][Next]_vars

\* ---------------------------------------------------- vocabulary of claims
ListFns == {"listProjects", "listAllIssues", "listProjectIssues"}

\* The upstream endpoint of each list function.
EndpointOf(f) ==
  CASE f = "listProjects"      -> "ListProjects"
    [] f = "listAllIssues"     -> "ListIssues"
    [] f = "listProjectIssues" -> "ListProjectIssues"

IsPrefix(s, t) == Len(s) <= Len(t) /\ SubSeq(t, 1, Len(s)) = s

\* The next-page indicator the upstream returns with page p.
IndicatorOf(p) == IF p \in DOMAIN upstream.next THEN upstream.next[p] ELSE 0

\* The pages reached from page p by following the indicators, at most
\* `fuel` of them.
RECURSIVE Walk(_, _)
Walk(p, fuel) ==
  IF p = 0 \/ fuel = 0 THEN <<>> ELSE <<p>> \o Walk(IndicatorOf(p), fuel - 1)

\* The pages of the listing, in order, and whether they end in indicator 0.
ChainPages == Walk(1, MaxPages + 2)
FiniteChain == Len(ChainPages) < MaxPages + 2

\* The items the upstream holds on page p of an endpoint.
HeldItems(endpoint, p) ==
  IF p \in DOMAIN upstream.next THEN PageItems(endpoint, p) ELSE <<>>

RECURSIVE ItemsOfPages(_, _)
ItemsOfPages(endpoint, ps) ==
  IF ps = <<>> THEN <<>>
  ELSE HeldItems(endpoint, Head(ps)) \o ItemsOfPages(endpoint, Tail(ps))

\* The items the upstream returns to a sequence of answered list requests.
RECURSIVE ItemsOfReqs(_)
ItemsOfReqs(rs) ==
  IF rs = <<>> THEN <<>>
  ELSE HeldItems(Head(rs).endpoint, ServedPage(Head(rs).Page))
         \o ItemsOfReqs(Tail(rs))

\* None of the four quals the gitlab cloud guard asks for is supplied.
NoneOfFour(q) ==
  /\ "assignee" \notin DOMAIN q
  /\ "assignee_id" \notin DOMAIN q
  /\ "author_id" \notin DOMAIN q
  /\ "project_id" \notin DOMAIN q

\* The base address connect resolves for invocation i.
ResolvedBase(i) == connect(env, cfg[i]).merged.baseUrl

\* The env/config merge as the specification words it: the config value
\* when the config supplies the field, the environment value otherwise.
MergeBase(i) ==
  IF cfg[i].BaseUrl = {} THEN env.GITLAB_ADDR ELSE Deref(cfg[i].BaseUrl)
MergeToken(i) ==
  IF cfg[i].Token = {} THEN env.GITLAB_TOKEN ELSE Deref(cfg[i].Token)

\* The configuration error the merge calls for ({} when both fields are set).
ConfigError(i) ==
  IF MergeBase(i) = "" THEN {ErrBaseAddr}
  ELSE IF MergeToken(i) = "" THEN {ErrToken}
  ELSE {}

\* The pointer a qual on column c sets a filter to.
Supplied(q, c) == IF c \in DOMAIN q THEN {q[c]} ELSE {}

\* -------------------------------------------------------------------- C1
\* C1: on each of the three list paths, against an upstream whose
\* indicators form a finite chain ending in 0 and that returns no error,
\* the handler issues one call per page of the chain, streams every item of
\* every page once in page order, and returns (nil, nil).
C1_OnePassOverChain ==
  \A i \in Invs :
    (fn[i] \in ListFns /\ upstream.failAt = 0 /\ FiniteChain) =>
      LET all == ItemsOfPages(EndpointOf(fn[i]), ChainPages)
      IN  /\ Len(reqs[i]) <= Len(ChainPages)
          /\ IsPrefix(rows[i], all)
          /\ (pc[i] = "done" /\ conn[i] # {}) =>
               /\ Len(reqs[i]) = Len(ChainPages)
               /\ rows[i] = all
               /\ ret[i] = NoRet

\* -------------------------------------------------------------------- C2
\* C2: once listIssues has passed its guard: if the resolved base address
\* is the hosted one and none of assignee, assignee_id, author_id,
\* project_id is supplied, it has returned the unsupported-query error with
\* no row, no upstream call and no connect; if one of the four is supplied
\* the guard has not fired and a listing function runs.
C2_HostedGuard ==
  \A i \in Invs :
    (hydrate[i] = "listIssues" /\ ~(fn[i] = "listIssues" /\ pc[i] = "entry")) =>
      LET q == optQuals[i]
      IN  /\ (ResolvedBase(i) = GitlabCloudApiUrl /\ NoneOfFour(q)) =>
               /\ pc[i] = "done"
               /\ ret[i] = [val |-> {}, err |-> {ErrCloudQual}]
               /\ rows[i] = <<>>
               /\ reqs[i] = <<>>
               /\ merged[i] = {}
          /\ ~NoneOfFour(q) =>
               /\ ret[i].err # {ErrCloudQual}
               /\ fn[i] \in {"listAllIssues", "listProjectIssues"}

\* -------------------------------------------------------------------- C3
\* C3: whenever listIssues has evaluated isGitlabCloud, the answer is true
\* exactly if the base address connect resolves is the hosted endpoint.
C3_CloudAgreesWithConnect ==
  \A i \in Invs :
    cloud[i] # "unevaluated" =>
      ((cloud[i] = "true") <=> (ResolvedBase(i) = GitlabCloudApiUrl))

\* -------------------------------------------------------------------- C4
\* What C4 says of connect itself: api.NewClient is attempted exactly when
\* both merged fields are non-empty, and no upstream call is made before
\* the handler's own first call.
ConnectOnly(i) ==
  /\ ConfigError(i) # {} => (built[i] = 0 /\ conn[i] = {})
  /\ (ConfigError(i) = {} /\ merged[i] # {}) => built[i] = 1
  /\ (pc[i] \in {"entry", "call"} /\ resp[i] = NoResp) => reqs[i] = <<>>
  /\ ConfigError(i) # {} => (rows[i] = <<>> /\ reqs[i] = <<>>)

\* C4 as claimed: with an empty merged base address or token, every
\* handler that has returned has returned the configuration error of the
\* merge (base address before token), with no row and no upstream call.
C4_ConfigErrorAlways ==
  \A i \in Invs :
    hydrate[i] # "none" =>
      /\ ConnectOnly(i)
      /\ (ConfigError(i) # {} /\ pc[i] = "done") =>
           ret[i] = [val |-> {}, err |-> ConfigError(i)]

\* C4 as amended: the same, except that a listIssues invocation its
\* gitlab cloud guard rejects returns the unsupported-query error without
\* calling connect.
C4_ConfigErrorUnlessGuard ==
  \A i \in Invs :
    hydrate[i] # "none" =>
      /\ ConnectOnly(i)
      /\ (ConfigError(i) # {} /\ pc[i] = "done") =>
           IF cloud[i] = "true"
             THEN /\ hydrate[i] = "listIssues"
                  /\ ret[i] = [val |-> {}, err |-> {ErrCloudQual}]
                  /\ merged[i] = {}
             ELSE /\ ret[i] = [val |-> {}, err |-> ConfigError(i)]
                  /\ merged[i] # {}

\* Both fields empty after the merge, and listIssues, its guard passed,
\* has returned the base-address error from connect.
C4_Witness ==
  \E i \in Invs :
    /\ hydrate[i] = "listIssues" /\ cloud[i] = "false"
    /\ pc[i] = "done" /\ merged[i] # {}
    /\ built[i] = 0 /\ reqs[i] = <<>> /\ rows[i] = <<>>
    /\ MergeBase(i) = "" /\ MergeToken(i) = ""
    /\ ret[i].err = {ErrBaseAddr}

\* -------------------------------------------------------------------- C5
\* C5: after connect has merged, each of base address and token is the
\* config value when the config supplies the field (the empty string
\* included) and the environment value otherwise.
C5_ConfigOverEnv ==
  \A i \in Invs :
    merged[i] # {} =>
      /\ Deref(merged[i]).baseUrl = MergeBase(i)
      /\ Deref(merged[i]).token = MergeToken(i)

\* connect has run with an empty config base address over a set
\* environment one, and a config token over a set environment one.
C5_Witness ==
  \E i \in Invs :
    /\ merged[i] # {}
    /\ cfg[i].BaseUrl = {""} /\ env.GITLAB_ADDR = SelfHostedUrl
    /\ cfg[i].Token = {"cfgtoken"} /\ env.GITLAB_TOKEN = "envtoken"
    /\ Deref(merged[i]) = [baseUrl |-> "", token |-> "cfgtoken"]

\* -------------------------------------------------------------------- C6
\* C6: in every list handler, once the failing upstream call has been
\* made the handler has returned that error, has made no further call, and
\* the sink holds exactly the items of the calls answered before it; until
\* then the sink holds a prefix of the items answered so far.
C6_ErrorAborts ==
  \A i \in Invs :
    fn[i] \in ListFns =>
      LET k == upstream.failAt
      IN  IF k > 0 /\ Len(reqs[i]) >= k
            THEN /\ pc[i] = "done"
                 /\ ret[i] = [val |-> {}, err |-> {upstream.failErr}]
                 /\ Len(reqs[i]) = k
                 /\ rows[i] = ItemsOfReqs(SubSeq(reqs[i], 1, k - 1))
            ELSE /\ IsPrefix(rows[i], ItemsOfReqs(reqs[i]))
                 /\ ret[i].err \notin {{e} : e \in UpstreamErrors}

\* The instance-wide issue listing failed on its second call after the two
\* items of page 1 were streamed.
C6_Witness ==
  \E i \in Invs :
    /\ fn[i] = "listAllIssues" /\ pc[i] = "done"
    /\ upstream.failAt = 2 /\ Len(reqs[i]) = 2
    /\ Len(rows[i]) = 2
    /\ ret[i].err = {upstream.failErr}

\* -------------------------------------------------------------------- C7
\* C7: every upstream call of a listIssues invocation goes to the
\* per-project endpoint with the supplied project id when project_id is
\* supplied, and to the instance-wide endpoint when it is not.
C7_Routing ==
  \A i \in Invs :
    hydrate[i] = "listIssues" =>
      \A k \in 1..Len(reqs[i]) :
        IF "project_id" \in DOMAIN optQuals[i]
          THEN /\ reqs[i][k].endpoint = "ListProjectIssues"
               /\ reqs[i][k].pid = optQuals[i]["project_id"]
          ELSE reqs[i][k].endpoint = "ListIssues"

\* Two calls made on the per-project path.
C7_Witness ==
  \E i \in Invs :
    /\ hydrate[i] = "listIssues" /\ "project_id" \in DOMAIN optQuals[i]
    /\ Len(reqs[i]) >= 2
    /\ reqs[i][2].endpoint = "ListProjectIssues"

\* -------------------------------------------------------------------- C8
\* C8: every upstream request of a listIssues invocation, on either path,
\* carries each of the five filters set to the supplied qual's value, or
\* unset when the qual is not supplied; the author qual sets nothing.
C8_QualsReachUpstream ==
  \A i \in Invs :
    hydrate[i] = "listIssues" =>
      /\ \A k \in 1..Len(reqs[i]) :
           /\ reqs[i][k].AssigneeUsername = Supplied(optQuals[i], "assignee")
           /\ reqs[i][k].AssigneeID = Supplied(optQuals[i], "assignee_id")
           /\ reqs[i][k].AuthorID = Supplied(optQuals[i], "author_id")
           /\ reqs[i][k].Confidential = Supplied(optQuals[i], "confidential")
           /\ reqs[i][k].Search = Supplied(optQuals[i], "search_string")
      /\ ("author" \in DOMAIN optQuals[i] /\ NoneOfFour(optQuals[i])
            /\ ConfigError(i) = {} /\ upstream.failAt = 0
            /\ ~isGitlabCloud(cfg[i]) /\ MergeBase(i) # MalformedUrl)
           => ret[i].err = {}

\* -------------------------------------------------------------------- C9
\* C9: getProject with a resolvable connection makes one get-by-id call
\* with the id of the qual and returns the entity, or nil with the
\* upstream error; it streams nothing.
C9_GetById ==
  \A i \in Invs :
    (hydrate[i] = "getProject" /\ pc[i] = "done" /\ conn[i] # {}) =>
      LET id == keyQuals[i]["id"]
      IN  /\ Len(reqs[i]) = 1
          /\ reqs[i][1].endpoint = "GetProject"
          /\ reqs[i][1].pid = id
          /\ rows[i] = <<>>
          /\ ret[i] = IF upstream.failAt = 1
                        THEN [val |-> {}, err |-> {upstream.failErr}]
                      ELSE IF id \in upstream.projects
                        THEN [val |-> {[ID |-> id]}, err |-> {}]
                      ELSE [val |-> {}, err |-> {ErrNotFound}]

\* getProject has returned the not-found error for an id the upstream
\* does not know.
C9_Witness ==
  \E i \in Invs :
    /\ hydrate[i] = "getProject" /\ pc[i] = "done" /\ conn[i] # {}
    /\ keyQuals[i]["id"] \notin upstream.projects
    /\ ret[i] = [val |-> {}, err |-> {ErrNotFound}]

\* ------------------------------------------------------------------- C10
\* The indicators of the upstream are strictly increasing.
Increasing ==
  \A p \in DOMAIN upstream.next : upstream.next[p] = 0 \/ upstream.next[p] > p

\* C10: every list request carries page size 50 and the page number of
\* the cursor: 1 first, then the indicator of the preceding response; and
\* with strictly increasing indicators no page is requested twice.
C10_Cursor ==
  \A i \in Invs :
    fn[i] \in ListFns =>
      /\ \A k \in 1..Len(reqs[i]) :
           /\ reqs[i][k].PerPage = 50
           /\ reqs[i][k].Page =
                IF k = 1 THEN 1
                ELSE IndicatorOf(ServedPage(reqs[i][k - 1].Page))
      /\ Increasing =>
           \A j, k \in 1..Len(reqs[i]) :
             j # k => reqs[i][j].Page # reqs[i][k].Page

\* ------------------------------------------------------------------- C11
\* The page loop of list function f run on its own from call n on: the
\* requests, the rows and the return value, followed for MaxCalls calls.
RECURSIVE AloneLoop(_, _, _, _, _, _)
AloneLoop(f, pid, o, n, rq, rw) ==
  IF n > MaxCalls
    THEN [reqs |-> rq, rows |-> rw, ret |-> NoRet, done |-> FALSE]
  ELSE
    LET sent == IF f = "listProjectIssues"
                  THEN listProjectIssues_CallOptions(o) ELSE o
        r    == ListResponse(EndpointOf(f), sent.Page, n)
        rq2  == Append(rq, ListRequest(EndpointOf(f), pid, sent))
    IN  IF r.err # {}
          THEN [reqs |-> rq2, rows |-> rw,
                ret |-> [val |-> {}, err |-> r.err], done |-> TRUE]
        ELSE IF r.NextPage = 0
          THEN [reqs |-> rq2, rows |-> rw \o r.items, ret |-> NoRet,
                done |-> TRUE]
        ELSE AloneLoop(f, pid, [o EXCEPT !.Page = r.NextPage], n + 1, rq2,
                       rw \o r.items)

\* What invocation i does when it runs alone: a function of its own
\* QueryData, the environment and the upstream only.
Alone(i) ==
  LET q == optQuals[i]
      c == connect(env, cfg[i])
      f == IF hydrate[i] # "listIssues" THEN hydrate[i]
           ELSE IF "project_id" \in DOMAIN q THEN "listProjectIssues"
           ELSE "listAllIssues"
      failed(err) == [reqs |-> <<>>, rows |-> <<>>,
                      ret |-> [val |-> {}, err |-> err], done |-> TRUE]
  IN  IF hydrate[i] = "listIssues" /\ NoneOfFour(q) /\ isGitlabCloud(cfg[i])
        THEN failed({ErrCloudQual})
      ELSE IF c.err # {} THEN failed(c.err)
      ELSE IF f = "getProject"
        THEN LET g == GetResponse(keyQuals[i]["id"], 1)
             IN  [reqs |-> <<ListRequest("GetProject", keyQuals[i]["id"],
                                         Options(0, 0, {}))>>,
                  rows |-> <<>>,
                  ret |-> IF g.err # {} THEN [val |-> {}, err |-> g.err]
                          ELSE [val |-> g.project, err |-> {}],
                  done |-> TRUE]
      ELSE IF f = "listProjects"
        THEN AloneLoop(f, 0, Options(1, 50, {}), 1, <<>>, <<>>)
      ELSE IF f = "listAllIssues"
        THEN AloneLoop(f, 0, addOptionalIssueQuals(Options(1, 50, {"all"}), q),
                       1, <<>>, <<>>)
      ELSE AloneLoop(f, q["project_id"],
                     addOptionalProjectIssueQuals(Options(1, 50, {"all"}), q),
                     1, <<>>, <<>>)

\* C11: under any interleaving of two invocations, the upstream requests
\* and the rows of each are at every moment a prefix of what that
\* invocation issues and streams when it runs alone, and once it has
\* returned they, and the value returned, are those of the run alone.
C11_Isolation ==
  \A i \in Invs :
    hydrate[i] # "none" =>
      LET a == Alone(i)
      IN  /\ IsPrefix(reqs[i], a.reqs)
          /\ IsPrefix(rows[i], a.rows)
          /\ pc[i] = "done" =>
               /\ a.done
               /\ reqs[i] = a.reqs
               /\ rows[i] = a.rows
               /\ ret[i] = a.ret

\* Two issue listings with different quals, both on their second page with
\* rows streamed, neither finished.
C11_Witness ==
  /\ \A i \in Invs :
       /\ fn[i] = "listAllIssues" /\ pc[i] = "stream"
       /\ Len(reqs[i]) = 2 /\ Len(rows[i]) >= 2
  /\ optQuals[1] # optQuals[2]
  /\ cfg[1] # cfg[2]

====
